---------------------------- MODULE Spec2Model ----------------------------
(***************************************************************************)
(* Model of Rochester_db_gen.py: a sequential harvest of PubMed records.   *)
(* get_pmids pages through the search endpoint, the main block slices the  *)
(* identifiers into batches, fetch_details fetches each batch, and         *)
(* parse_articles extracts one tuple per record and hands it to            *)
(* insert_article (INSERT OR IGNORE on a TEXT PRIMARY KEY).                *)
(*                                                                         *)
(* Python strings are TLA+ strings, Python lists and tuples are sequences, *)
(* a JSON object is a function from its keys, Python's None is the value   *)
(* None below (no text of the model equals it).                            *)
(***************************************************************************)
EXTENDS Integers, Sequences, FiniteSets, TLC

VARIABLES
    pc,            \* position of the process in the main block
    run,           \* number of the process run (the store outlives a run)
    store,         \* rows of pubmed_articles, in rowid order
    storeAtStart,  \* history: the store when the current run started
    prevClean,     \* history: the previous run completed, remote data unchanged since
    pmids,         \* get_pmids: pmids, then the main block's pmids
    retstart,      \* get_pmids: retstart
    i,             \* main block: loop index i
    xml_data,      \* main block: xml_data, the parsed markup (sequence of elements)
    error,         \* the uncaught exception that ended the run, or "none"
    status,        \* status of the last response, 0 before the first
    total,         \* remote: number of identifiers matching the query
    profile,       \* remote: how the detail endpoint answers
    revised,       \* remote: the records' field values have been revised
    nSearch,       \* history: search requests issued in this run
    faults,        \* history: deviations of the search endpoint in this run
    events,        \* history: network calls and pauses of this run, in order
    fetchLog,      \* history: the batches handed to fetch_details in this run
    insertLog      \* history: identifiers handed to insert_article in this run

vars == <<pc, run, store, storeAtStart, prevClean, pmids, retstart, i, xml_data,
          error, status, total, profile, revised, nSearch, faults, events, fetchLog,
          insertLog>>

-----------------------------------------------------------------------------
(* Bounds of the model *)

MaxFullPages == 2
MaxRuns == 2

(* Program constants *)

retmax == 200
batch_size == 200

None == "<None>"

Min(a, b) == IF a < b THEN a ELSE b
Max(a, b) == IF a > b THEN a ELSE b
Ceil(a, b) == (a + b - 1) \div b

-----------------------------------------------------------------------------
(* Generic Python helpers *)

\* sep.join(seq)
RECURSIVE Join(_, _)
Join(sep, seq) ==
    IF seq = <<>> THEN ""
    ELSE IF Len(seq) = 1 THEN seq[1]
    ELSE seq[1] \o sep \o Join(sep, Tail(seq))

\* [x for x in seq if x]: None and "" are falsy
RECURSIVE Truthy(_)
Truthy(seq) ==
    IF seq = <<>> THEN <<>>
    ELSE IF seq[1] = None \/ seq[1] = ""
         THEN Truthy(Tail(seq))
         ELSE <<seq[1]>> \o Truthy(Tail(seq))

\* d.get(k, default)
Get(d, k, default) == IF k \in DOMAIN d THEN d[k] ELSE default

\* x or ""
OrEmpty(x) == IF x = None \/ x = "" THEN "" ELSE x

\* element.findtext(path, default): the first matching node's text ("" for a
\* node without text), the default when no node matches
FindText(node, default) == IF node = None THEN default ELSE node


-----------------------------------------------------------------------------
(* parse_articles: extraction of one record.  A PubmedArticle element is a *)
(* record of its nodes: a single-valued node is its text ("" when the node *)
(* has no text) or None when the node is absent; ArticleIds, AbstractTexts *)
(* and Authors are the sequences of the matching nodes in document order.  *)

\* the last ArticleId whose IdType attribute is "doi" gives doi = el.text,
\* which is None for a node without text
RECURSIVE DoiScan(_, _)
DoiScan(els, doi) ==
    IF els = <<>> THEN doi
    ELSE DoiScan(Tail(els), IF els[1].IdType = "doi" THEN els[1].text ELSE doi)

Doi(article) == DoiScan(article.ArticleIds, "")

\* " ".join([t.text for t in ... if t.text]) or ""
AbstractText(article) == OrEmpty(Join(" ", Truthy(article.AbstractTexts)))

AuthorNameSwapped(author) == Join(" ", Truthy(<<author.LastName, author.ForeName>>))

\* name = " ".join(filter(None, [forename, lastname]))
AuthorName(author) == Join(" ", Truthy(<<author.ForeName, author.LastName>>))

\* the loop over .//Author: a name is appended only when it is not empty
RECURSIVE AuthorNames(_)
AuthorNames(els) ==
    IF els = <<>> THEN <<>>
    ELSE LET name == AuthorName(els[1])
         IN  (IF name # "" THEN <<name>> ELSE <<>>) \o AuthorNames(Tail(els))

FirstAuthor(authors) == IF authors # <<>> THEN authors[1] ELSE ""

AllAuthors(authors) == Join(", ", authors)

FieldNoDefault(node) == FindText(node, None)

\* findtext(path) or ""
Field(node) == OrEmpty(FindText(node, None))

\* findtext(path, "") or ""
FieldOrEmpty(node) == OrEmpty(FindText(node, ""))

\* the tuple handed to insert_article
ParseArticle(article) ==
    LET authors == AuthorNames(article.Authors)
    IN  << FindText(article.PMID, None),
           Field(article.Year),
           Field(article.MedlineDate),
           FirstAuthor(authors),
           AllAuthors(authors),
           FieldOrEmpty(article.ArticleTitle),
           FieldOrEmpty(article.ISSN),
           Doi(article),
           Field(article.MedlinePgn),
           Field(article.Issue),
           Field(article.Volume),
           FieldOrEmpty(article.Title),
           FieldOrEmpty(article.ISOAbbreviation),
           AbstractText(article) >>

\* columns of pubmed_articles, in the order of the tuple
ColPmid == 1
ColYear == 2
ColDate == 3
ColFirstAuthor == 4
ColAllAuthors == 5
ColTitle == 6
ColIssn == 7
ColDoi == 8
ColPages == 9
ColIssue == 10
ColVolume == 11
ColJournal == 12
ColJournalAbbr == 13
ColAbstract == 14

-----------------------------------------------------------------------------
(* The store: pubmed_articles with pmid TEXT PRIMARY KEY.  The table is a  *)
(* rowid table, so SQLite admits NULL in the key column and never treats   *)
(* two NULLs as a conflict; INSERT OR IGNORE skips only a row whose        *)
(* non-NULL pmid is already stored.                                        *)

Conflicts(rows, data) ==
    data[ColPmid] # None /\ \E k \in 1..Len(rows) : rows[k][ColPmid] = data[ColPmid]

InsertOrReplace(rows, data) ==
    IF Conflicts(rows, data)
    THEN [k \in 1..Len(rows) |->
             IF rows[k][ColPmid] = data[ColPmid] THEN data ELSE rows[k]]
    ELSE Append(rows, data)

InsertArticle(rows, data) ==
    IF Conflicts(rows, data) THEN rows ELSE Append(rows, data)

ArticlesReversed(xml) == [k \in 1..Len(xml) |-> xml[Len(xml) + 1 - k]]

\* root.findall(".//PubmedArticle"), in document order
Articles(xml) == xml

\* the loop of parse_articles over the elements els[lo..hi], one
\* insert_article call per element from left to right (the range is split
\* in two, and the left half computed before the right one is entered,
\* only to keep the evaluation shallow)
RECURSIVE InsertRange(_, _, _, _)
InsertRange(rows, els, lo, hi) ==
    IF lo > hi THEN rows
    ELSE IF lo = hi THEN InsertArticle(rows, ParseArticle(els[lo]))
    ELSE LET mid == (lo + hi) \div 2
             left == InsertRange(rows, els, lo, mid)
         IN  IF Len(left) >= 0 THEN InsertRange(left, els, mid + 1, hi) ELSE left

ParseArticlesRows(xml, rows) == InsertRange(rows, Articles(xml), 1, Len(Articles(xml)))

\* the identifiers handed to insert_article, in call order
ParsedPmids(xml) == [k \in 1..Len(xml) |-> ParseArticle(Articles(xml)[k])[ColPmid]]

-----------------------------------------------------------------------------
(* The remote service.  The search endpoint holds the identifiers "1" ..   *)
(* ToString(total) and serves them by offset; a response may also deviate: *)
(* a non-success status, an empty identifier list before the end, or a     *)
(* body with fields missing.                                               *)

Totals ==
    { n \in 0..(MaxFullPages * retmax + 1) :
        \E k \in 0..MaxFullPages : n \in {k * retmax - 1, k * retmax, k * retmax + 1} }

Profiles == {"plain", "irregular"}

AllIds == [k \in 1..total |-> ToString(k)]

Page(offset) == SubSeq(AllIds, offset + 1, Min(offset + retmax, total))

OkBody(offset) ==
    [esearchresult |-> [count |-> ToString(total), idlist |-> Page(offset)]]

SearchResponses(offset) ==
    { [status |-> 200, fault |-> "none", body |-> OkBody(offset)],
      [status |-> 500, fault |-> "http", body |-> <<>>],
      [status |-> 200, fault |-> "noresult",
       body |-> [error |-> "API rate limit exceeded"]],
      [status |-> 200, fault |-> "noidlist",
       body |-> [esearchresult |-> [count |-> ToString(total)]]],
      [status |-> 200, fault |-> "nocount",
       body |-> [esearchresult |-> [idlist |-> Page(offset)]]] }
    \cup
    { [status |-> 200, fault |-> "empty",
       body |-> [esearchresult |-> [count |-> ToString(total), idlist |-> <<>>]]]
      : x \in {y \in {1} : Page(offset) # <<>>} }

\* the record the detail endpoint holds for an identifier
Element(id, v, hasPmid) ==
    [ PMID |-> IF hasPmid THEN id ELSE None,
      Title |-> "Mayo Clinic Proceedings",
      ISOAbbreviation |-> None,
      ISSN |-> None,
      Year |-> "2024",
      MedlineDate |-> None,
      Volume |-> IF v THEN "100" ELSE "99",
      Issue |-> None,
      MedlinePgn |-> None,
      ArticleTitle |-> IF v THEN "A study (revised)" ELSE "A study",
      ArticleIds |-> <<>>,
      AbstractTexts |-> <<>>,
      Authors |-> << [ForeName |-> "Jane", LastName |-> "Doe"] >> ]

\* under "irregular" the record of identifier "1" carries no PMID node
RemoteElement(id, v) == Element(id, v, ~(profile = "irregular" /\ id = "1"))

\* the markup the detail endpoint returns for a batch: one element per
\* identifier it knows, in request order or, under "irregular", without
\* identifier "2" and in reverse order
Markup(known, reversed) ==
    [k \in 1..Len(known) |->
        RemoteElement(known[IF reversed THEN Len(known) + 1 - k ELSE k], revised)]

Efetch(batch) ==
    IF profile = "irregular"
    THEN Markup(SelectSeq(batch, LAMBDA id : id # "2"), TRUE)
    ELSE Markup(batch, FALSE)

-----------------------------------------------------------------------------
(* get_pmids: what follows a response *)

RaiseForStatusNever(code) == FALSE

\* r.raise_for_status(): client and server errors raise HTTPError
RaiseForStatus(code) == code >= 400

\* int(s) for a decimal string
ParseInt(s) == CHOOSE n \in 0..(MaxFullPages * retmax + retmax) : ToString(n) = s

\* ids = data.get("esearchresult", {}).get("idlist", [])
Ids(data) == Get(Get(data, "esearchresult", <<>>), "idlist", <<>>)

\* data["esearchresult"]["count"] raises KeyError when a key is missing
HasCount(data) ==
    "esearchresult" \in DOMAIN data /\ "count" \in DOMAIN data["esearchresult"]

NextRetstartSkipping(offset) == offset + retmax + 1

\* retstart += retmax
NextRetstart(offset) == offset + retmax

ReachedEndStrict(offset, count) == offset > count

\* if retstart >= int(data["esearchresult"]["count"]): break
ReachedEnd(offset, count) == offset >= count

BatchOverlapping(ids, k) == SubSeq(ids, Max(k, 1), Min(k + batch_size, Len(ids)))

\* batch = pmids[i:i+batch_size]
Batch(ids, k) == SubSeq(ids, k + 1, Min(k + batch_size, Len(ids)))

-----------------------------------------------------------------------------
(* The process *)

Init ==
    /\ pc = "connect"
    /\ run = 1
    /\ store = <<>>
    /\ storeAtStart = store
    /\ prevClean = FALSE
    /\ pmids = <<>>
    /\ retstart = 0
    /\ i = 0
    /\ xml_data = <<>>
    /\ error = "none"
    /\ status = 0
    /\ total \in Totals
    /\ profile \in Profiles
    /\ revised = FALSE
    /\ nSearch = 0
    /\ faults = {}
    /\ events = <<>>
    /\ fetchLog = <<>>
    /\ insertLog = <<>>

remoteVars == <<total, profile, revised>>

\* conn = sqlite3.connect(DB_FILE); create_table(conn): CREATE TABLE IF NOT
\* EXISTS leaves an existing table as it is
Connect ==
    /\ pc = "connect"
    /\ pc' = "search"
    /\ UNCHANGED <<run, store, storeAtStart, prevClean, pmids, retstart, i,
                   xml_data, error, status, remoteVars, nSearch, faults, events,
                   fetchLog, insertLog>>

\* one pass of the loop of get_pmids, from the request to the break, the
\* exception or the end of the pass
Esearch ==
    /\ pc = "search"
    /\ \E r \in SearchResponses(retstart) :
        LET ids == Ids(r.body)
        IN  /\ status' = r.status
            /\ nSearch' = nSearch + 1
            /\ events' = Append(events, "esearch")
            /\ faults' = faults \cup ({r.fault} \ {"none"})
            /\ IF RaiseForStatus(r.status)
               THEN /\ pc' = "aborted"
                    /\ error' = "HTTPError"
                    /\ UNCHANGED <<pmids, retstart>>
               ELSE IF ids = <<>>
               THEN /\ pc' = "fetch"
                    /\ UNCHANGED <<pmids, retstart, error>>
               ELSE /\ pmids' = pmids \o ids
                    /\ retstart' = NextRetstart(retstart)
                    /\ IF ~HasCount(r.body)
                       THEN pc' = "aborted" /\ error' = "KeyError"
                       ELSE /\ error' = error
                            /\ pc' = IF ReachedEnd(retstart',
                                                   ParseInt(r.body["esearchresult"]["count"]))
                                     THEN "fetch" ELSE "search_sleep"
    /\ UNCHANGED <<run, store, storeAtStart, prevClean, i, xml_data, remoteVars,
                   fetchLog, insertLog>>

\* time.sleep(0.34) at the end of a pass of get_pmids and in fetch_details
Sleep ==
    /\ \/ pc = "search_sleep" /\ pc' = "search"
       \/ pc = "fetch_sleep" /\ pc' = "parse"
    /\ events' = Append(events, "sleep")
    /\ UNCHANGED <<run, store, storeAtStart, prevClean, pmids, retstart, i,
                   xml_data, error, status, remoteVars, nSearch, faults,
                   fetchLog, insertLog>>

\* fetch_details(batch) up to its pause: the request and raise_for_status
FetchDetails ==
    /\ pc = "fetch"
    /\ i < Len(pmids)
    /\ LET batch == Batch(pmids, i)
       IN  /\ fetchLog' = Append(fetchLog, batch)
           /\ events' = Append(events, "efetch")
           /\ \E s \in {200, 500} :
                /\ status' = s
                /\ IF RaiseForStatus(s)
                   THEN pc' = "aborted" /\ error' = "HTTPError" /\ xml_data' = xml_data
                   ELSE pc' = "fetch_sleep" /\ error' = error /\ xml_data' = Efetch(batch)
    /\ UNCHANGED <<run, store, storeAtStart, prevClean, pmids, retstart, i,
                   remoteVars, nSearch, faults, insertLog>>

\* parse_articles(xml_data, conn), every record inserted and committed, and
\* the step of the for loop
ParseArticles ==
    /\ pc = "parse"
    /\ store' = ParseArticlesRows(xml_data, store)
    /\ insertLog' = insertLog \o ParsedPmids(xml_data)
    /\ i' = i + batch_size
    /\ pc' = "fetch"
    /\ UNCHANGED <<run, storeAtStart, prevClean, pmids, retstart, xml_data, error,
                   status, remoteVars, nSearch, faults, events, fetchLog>>

\* the for loop is exhausted: conn.close() and the final message
Finish ==
    /\ pc = "fetch"
    /\ i >= Len(pmids)
    /\ pc' = "done"
    /\ UNCHANGED <<run, store, storeAtStart, prevClean, pmids, retstart, i,
                   xml_data, error, status, remoteVars, nSearch, faults, events,
                   fetchLog, insertLog>>

\* the program is started again on the same database file; the remote
\* records may have been revised in between
Restart ==
    /\ pc \in {"done", "aborted"}
    /\ run < MaxRuns
    /\ \E v \in {revised, TRUE} :
        /\ revised' = v
        /\ prevClean' = (pc = "done" /\ faults = {} /\ v = revised)
    /\ run' = run + 1
    /\ pc' = "connect"
    /\ storeAtStart' = store
    /\ pmids' = <<>>
    /\ retstart' = 0
    /\ i' = 0
    /\ xml_data' = <<>>
    /\ error' = "none"
    /\ status' = 0
    /\ nSearch' = 0
    /\ faults' = {}
    /\ events' = <<>>
    /\ fetchLog' = <<>>
    /\ insertLog' = <<>>
    /\ UNCHANGED <<store, total, profile>>

Next ==
    \/ Connect
    \/ Esearch
    \/ Sleep
    \/ FetchDetails
    \/ ParseArticles
    \/ Finish
    \/ Restart

Spec == Init /\ [][Next]_vars

-----------------------------------------------------------------------------
(* Properties of the whole program, checked under Spec *)

NetworkCalls == {"esearch", "efetch"}

\* get_pmids has returned its list to the main block
GetPmidsReturned ==
    \/ pc \in {"fetch", "fetch_sleep", "parse", "done"}
    \/ pc = "aborted" /\ fetchLog # <<>>

RECURSIVE Flatten(_)
Flatten(seqs) == IF seqs = <<>> THEN <<>> ELSE seqs[1] \o Flatten(Tail(seqs))

IsPrefix(a, b) == Len(a) <= Len(b) /\ a = SubSeq(b, 1, Len(a))

\* C1: when the search endpoint serves its `total` identifiers by offset in
\* pages of 200 and reports count = total on every response, get_pmids
\* returns exactly those identifiers, each once, in the order served.
C1_PaginationComplete ==
    (GetPmidsReturned /\ faults = {}) =>
        /\ Len(pmids) = total
        /\ \A k \in 1..Len(pmids) : pmids[k] = ToString(k)
        /\ Cardinality({pmids[k] : k \in 1..Len(pmids)}) = total

C1_Witness ==
    /\ GetPmidsReturned
    /\ faults = {}
    /\ total = 2 * retmax + 1
    /\ Len(pmids) = total
    /\ nSearch = 3

\* C2 as stated: get_pmids issues exactly ceil(T / P) page requests before it
\* returns, or fewer when an empty page is returned early, for every T >= 0.
C2_Original ==
    (GetPmidsReturned /\ faults \subseteq {"empty"}) =>
        IF "empty" \in faults
        THEN nSearch <= Ceil(total, retmax)
        ELSE nSearch = Ceil(total, retmax)

\* C2 amended: get_pmids issues exactly max(1, ceil(T / P)) page requests
\* before it returns (one request when T = 0), or fewer, but at least one,
\* when an empty page is returned early.
C2_RequestCount ==
    (GetPmidsReturned /\ faults \subseteq {"empty"}) =>
        /\ nSearch >= 1
        /\ IF "empty" \in faults
           THEN nSearch <= Max(1, Ceil(total, retmax))
           ELSE nSearch = Max(1, Ceil(total, retmax))

C2_Witness ==
    /\ GetPmidsReturned
    /\ faults = {}
    /\ total = 0
    /\ nSearch = 1
    /\ pmids = <<>>

\* C3 as stated: a second complete run against the same remote data leaves
\* the store exactly as the first run left it.
C3_Idempotent ==
    (run >= 2 /\ prevClean /\ pc = "done" /\ faults = {}) => store = storeAtStart

\* C4 as stated: no two rows of the store have the same identifier, a stored
\* row is never changed, and an insertion with a stored identifier adds
\* nothing.
C4_WriteOnce ==
    /\ \A a, b \in 1..Len(store) : a # b => store[a][ColPmid] # store[b][ColPmid]
    /\ IsPrefix(storeAtStart, store)
    /\ pc \in {"fetch", "done"} =>
         Len(store) - Len(storeAtStart) =
             Cardinality({insertLog[k] : k \in 1..Len(insertLog)}
                         \ {storeAtStart[k][ColPmid] : k \in 1..Len(storeAtStart)})

\* C5: a non-success response of either endpoint ends the run at once with
\* nothing inserted in that step; an ended run issues no further request and
\* inserts nothing; the store only ever grows at its end; after a failure
\* during discovery the store is as the run found it.
C5_FatalTransport ==
    [][ /\ (events' # events /\ events' # <<>> /\ status' >= 400) =>
            (pc' = "aborted" /\ store' = store)
        /\ (pc = "aborted" /\ run' = run) =>
            UNCHANGED <<store, events, nSearch, fetchLog, insertLog>>
        /\ IsPrefix(store, store')
        /\ (pc' = "aborted" /\ fetchLog' = <<>>) => store' = storeAtStart'
      ]_vars

C5_Witness ==
    /\ pc = "aborted"
    /\ error = "HTTPError"
    /\ status >= 400
    /\ Len(fetchLog) = 2
    /\ Len(store) > Len(storeAtStart)

\* C6 as stated: a successful search response with missing fields never makes
\* get_pmids raise; only a non-success response ends discovery with an error.
C6_Graceful ==
    (pc = "aborted" /\ fetchLog = <<>>) => status >= 400

\* C7 as stated: no two network calls of a run are issued without a pause
\* between them.
C7_Paced ==
    \A k \in 1..(Len(events) - 1) :
        ~(events[k] \in NetworkCalls /\ events[k + 1] \in NetworkCalls)

\* the identifiers of the markup the detail endpoint returns, in document order
PmidNodes(xml) == [k \in 1..Len(xml) |-> xml[k].PMID]

MarkupPmids(batch) == PmidNodes(Efetch(batch))

\* the batches whose markup parse_articles has gone through
Loaded ==
    IF pc \in {"fetch", "done"} THEN fetchLog
    ELSE SubSeq(fetchLog, 1, Len(fetchLog) - 1)

\* C8: the fetched batches are consecutive slices of 200 of the identifier
\* list (none empty, only the last may be shorter), one fetch per slice in
\* list order, ceil(L / 200) of them in a completed run; every record of a
\* batch is handed to insert_article, in markup order, before the next fetch.
C8_Batching ==
    GetPmidsReturned =>
        /\ IsPrefix(Flatten(fetchLog), pmids)
        /\ \A k \in 1..Len(fetchLog) :
              /\ fetchLog[k] # <<>>
              /\ Len(fetchLog[k]) <= 200
              /\ Len(fetchLog[k]) < 200 => 200 * (k - 1) + Len(fetchLog[k]) = Len(pmids)
        /\ pc = "done" =>
              /\ Flatten(fetchLog) = pmids
              /\ Len(fetchLog) = Ceil(Len(pmids), 200)
        /\ insertLog = Flatten([k \in 1..Len(Loaded) |-> MarkupPmids(Loaded[k])])

C8_Witness ==
    /\ pc = "done"
    /\ profile = "irregular"
    /\ Len(pmids) = 2 * retmax + 1
    /\ Len(fetchLog) = 3
    /\ Len(fetchLog[3]) = 1
    /\ Len(insertLog) = 2 * retmax

-----------------------------------------------------------------------------
(* parse_articles on its own: the markup holds one record element drawn    *)
(* from bounded sets of node combinations, the store is empty, and the     *)
(* only step is parse_articles.                                            *)

MaxAuthors == 2

NodeTexts == {None, "x"}

ArticleIdLists ==
    { <<>>,
      << [IdType |-> None, text |-> "S0025" ] >>,
      << [IdType |-> "pii", text |-> "S0025"] >>,
      << [IdType |-> "doi", text |-> "10.1/a"] >>,
      << [IdType |-> "pii", text |-> "S0025"], [IdType |-> "doi", text |-> "10.1/a"] >>,
      << [IdType |-> "doi", text |-> "10.1/a"], [IdType |-> "doi", text |-> "10.1/b"] >> }

AbstractLists ==
    { <<>>, <<None>>, <<"Background text.", "Methods text.">> }

ForeNames == {None, "", "Jane"}
LastNames == {None, "", "Doe", "Smith"}

AuthorEntries == [ForeName : ForeNames, LastName : LastNames]

AuthorLists == UNION { [1..n -> AuthorEntries] : n \in 0..MaxAuthors }

\* elements with every combination of present and absent nodes
NodeElements ==
    [ PMID : {"7"},
      Title : NodeTexts, ISOAbbreviation : NodeTexts, ISSN : NodeTexts,
      Year : NodeTexts, MedlineDate : NodeTexts, Volume : NodeTexts,
      Issue : NodeTexts, MedlinePgn : NodeTexts, ArticleTitle : NodeTexts,
      ArticleIds : ArticleIdLists,
      AbstractTexts : AbstractLists,
      Authors : { <<>>, << [ForeName |-> "Jane", LastName |-> "Doe"] >> } ]

\* elements with every author list up to MaxAuthors entries
AuthorElements ==
    { [Element("7", FALSE, TRUE) EXCEPT !.Authors = a] : a \in AuthorLists }

InitParse ==
    /\ pc = "parse"
    /\ run = 1
    /\ store = <<>>
    /\ storeAtStart = <<>>
    /\ prevClean = FALSE
    /\ pmids = <<"7">>
    /\ retstart = retmax
    /\ i = 0
    /\ xml_data \in { <<e>> : e \in NodeElements \cup AuthorElements }
    /\ error = "none"
    /\ status = 200
    /\ total = 1
    /\ profile = "plain"
    /\ revised = FALSE
    /\ nSearch = 1
    /\ faults = {}
    /\ events = <<"esearch", "efetch", "sleep">>
    /\ fetchLog = << <<"7">> >>
    /\ insertLog = <<>>

NextParse == ParseArticles

SpecParse == InitParse /\ [][NextParse]_vars

\* parse_articles has gone through the markup
Parsed == pc = "fetch" /\ insertLog # <<>>

\* the columns read with findtext, and the node each is read from
NodeOf(article, col) ==
    CASE col = ColYear -> article.Year
      [] col = ColDate -> article.MedlineDate
      [] col = ColTitle -> article.ArticleTitle
      [] col = ColIssn -> article.ISSN
      [] col = ColPages -> article.MedlinePgn
      [] col = ColIssue -> article.Issue
      [] col = ColVolume -> article.Volume
      [] col = ColJournal -> article.Title
      [] col = ColJournalAbbr -> article.ISOAbbreviation

\* the node or attribute a column is read from is absent from the element
Absent(article, col) ==
    CASE col \in {ColFirstAuthor, ColAllAuthors} -> article.Authors = <<>>
      [] col = ColAbstract -> article.AbstractTexts = <<>>
      [] col = ColDoi ->
            \A k \in 1..Len(article.ArticleIds) : article.ArticleIds[k].IdType # "doi"
      [] OTHER -> NodeOf(article, col) = None

OptionalCols == 2..14

\* C9: for each of the 13 optional fields, when the node or attribute it is
\* read from is absent, the row stored for the record holds the empty string
\* in that column, whatever the other nodes; the record is inserted and no
\* error is raised.
C9_Defaulting ==
    Parsed =>
        /\ error = "none"
        /\ Len(store) = Len(xml_data)
        /\ \A k \in 1..Len(xml_data) :
              /\ store[k][ColPmid] = xml_data[k].PMID
              /\ \A col \in OptionalCols :
                    Absent(xml_data[k], col) => store[k][col] = ""

C9_Witness ==
    /\ Parsed
    /\ Len(store) = 1
    /\ \A col \in OptionalCols \ {ColDoi} : ~Absent(xml_data[1], col)
    /\ xml_data[1].ArticleIds = << [IdType |-> "pii", text |-> "S0025"] >>
    /\ store[1][ColDoi] = ""
    /\ store[1][ColTitle] = "x"

Present(part) == part # None /\ part # ""

\* the name of one author entry as the claim words it
ClaimedName(author) ==
    CASE Present(author.ForeName) /\ Present(author.LastName) ->
            author.ForeName \o " " \o author.LastName
      [] Present(author.ForeName) /\ ~Present(author.LastName) -> author.ForeName
      [] ~Present(author.ForeName) /\ Present(author.LastName) -> author.LastName
      [] OTHER -> ""

\* seq joined with ", ", built from the left
CommaJoined(seq) ==
    LET upto[k \in 0..Len(seq)] ==
            IF k = 0 THEN ""
            ELSE IF k = 1 THEN seq[1]
            ELSE upto[k - 1] \o ", " \o seq[k]
    IN  upto[Len(seq)]

\* C10 as stated: the author sequence has one name per author entry.
C10_Original ==
    Parsed =>
        LET names == [k \in 1..Len(xml_data[1].Authors) |->
                          ClaimedName(xml_data[1].Authors[k])]
        IN  /\ store[1][ColFirstAuthor] = (IF names = <<>> THEN "" ELSE names[1])
            /\ store[1][ColAllAuthors] = CommaJoined(names)

\* C10 amended: the author sequence holds, in source order, the name of every
\* author entry that has a non-empty forename or lastname (the parts present
\* joined with one space); an entry with neither contributes nothing;
\* first_author is the first name of the sequence ("" when it is empty) and
\* all_authors is the sequence joined with ", ".
C10_AuthorJoining ==
    Parsed =>
        LET entries == xml_data[1].Authors
            names == SelectSeq([k \in 1..Len(entries) |-> ClaimedName(entries[k])],
                               LAMBDA n : n # "")
        IN  /\ store[1][ColFirstAuthor] = (IF names = <<>> THEN "" ELSE names[1])
            /\ store[1][ColAllAuthors] = CommaJoined(names)
            /\ entries = << [ForeName |-> "Jane", LastName |-> "Doe"],
                            [ForeName |-> "", LastName |-> "Smith"] >>
                 => /\ store[1][ColFirstAuthor] = "Jane Doe"
                    /\ store[1][ColAllAuthors] = "Jane Doe, Smith"

C10_Witness ==
    /\ Parsed
    /\ xml_data[1].Authors = << [ForeName |-> "Jane", LastName |-> "Doe"],
                                [ForeName |-> "", LastName |-> "Smith"] >>
    /\ store[1][ColFirstAuthor] = "Jane Doe"
    /\ store[1][ColAllAuthors] = "Jane Doe, Smith"

=============================================================================
